---- MODULE Spec2Model ----
(***************************************************************************)
(* A model of src/main.py: the /chat handler of the LPU VertoSewa          *)
(* assistant (chat_api, process_message), its bounded per-session memory   *)
(* (conversation_memory, update_memory), the per-request corpus loading    *)
(* (load_admin_documents, load_static_documents, chunk_text, embed_text)   *)
(* and the ranking (semantic_search).                                      *)
(*                                                                         *)
(* A text is a sequence of pieces.  A piece is a string: one character for *)
(* text that the code inspects (request messages, document texts), a       *)
(* whole literal for the fixed parts of a reply.  Concatenation is \o.     *)
(*                                                                         *)
(* A Python call either returns or raises; an operator that models a       *)
(* function that can raise returns a record with a field ok, and carries   *)
(* the name of the call that raised in error.                              *)
(***************************************************************************)
EXTENDS Integers, Sequences, FiniteSets, TLC

VARIABLES
    conversation_memory,  \* main.py:126, session id -> list of turns
    lpu_content,          \* the Firestore collection read at main.py:73-78
    STATIC_LPU,           \* main.py:43, the static text read at import
    last,                 \* the last request and what the handler did with it
    appended,             \* history variable: every turn update_memory was given
    ss_args,              \* arguments of a direct semantic_search call
    ss_result,            \* its result
    inflight,             \* requests whose handler has started and not finished
    writers,              \* history variable: the request that appended each turn
    next_id,              \* number given to the next request that arrives
    ct_args,              \* arguments of a direct chunk_text call
    ct_result             \* its result

conc_vars == <<inflight, writers, next_id>>
chunk_vars == <<ct_args, ct_result>>

vars == <<conversation_memory, lpu_content, STATIC_LPU, last, appended,
          ss_args, ss_result, inflight, writers, next_id, ct_args, ct_result>>

(***************************************************************************)
(* Bounds of the model.                                                    *)
(***************************************************************************)
MaxTurns == 8         \* turns appended before the model stops taking requests
MaxTopK == 3          \* largest top_k given to a direct semantic_search call
MaxDocs == 3          \* longest document list given to such a call
MaxArrivals == 3      \* requests that arrive in one behaviour of SpecConcurrent
MaxTextLen == 7       \* longest text given to a direct chunk_text call
MaxWindow == 3        \* largest chunk_size given to such a call

(***************************************************************************)
(* Program constants.                                                      *)
(***************************************************************************)
MemoryLimit == 6          \* main.py:132, [-6:]
DefaultChunkSize == 350   \* main.py:48
FetchLimit == 150         \* main.py:76
DefaultTopK == 4          \* main.py:109
ThresholdNum == 35        \* main.py:109, threshold 0.35 = 35/100
ThresholdDen == 100

(***************************************************************************)
(* Strings: str.strip, str.lower, str.split, str.join on texts.            *)
(***************************************************************************)
Whitespace == {" ", "\t", "\n"}

LowerChar(c) ==
    CASE c = "H" -> "h"
      [] c = "I" -> "i"
      [] c = "L" -> "l"
      [] c = "P" -> "p"
      [] c = "U" -> "u"
      [] c = "T" -> "t"
      [] OTHER -> c

Lower(text) == [i \in 1..Len(text) |-> LowerChar(text[i])]

RECURSIVE LStrip(_)
LStrip(text) ==
    IF text # <<>> /\ Head(text) \in Whitespace THEN LStrip(Tail(text)) ELSE text

RECURSIVE RStrip(_)
RStrip(text) ==
    IF text # <<>> /\ text[Len(text)] \in Whitespace
    THEN RStrip(SubSeq(text, 1, Len(text) - 1))
    ELSE text

Strip(text) == RStrip(LStrip(text))

\* str.split(): the maximal runs of non-whitespace characters, in order.
RECURSIVE SplitFrom(_, _, _)
SplitFrom(text, i, word) ==
    IF i > Len(text)
    THEN IF word = <<>> THEN <<>> ELSE <<word>>
    ELSE IF text[i] \in Whitespace
         THEN IF word = <<>>
              THEN SplitFrom(text, i + 1, <<>>)
              ELSE <<word>> \o SplitFrom(text, i + 1, <<>>)
         ELSE SplitFrom(text, i + 1, Append(word, text[i]))

Split(text) == SplitFrom(text, 1, <<>>)

\* sep.join(parts)
RECURSIVE Join(_, _)
Join(sep, parts) ==
    IF parts = <<>> THEN <<>>
    ELSE IF Len(parts) = 1 THEN parts[1]
    ELSE parts[1] \o sep \o Join(sep, Tail(parts))

\* Python's seq[i:j] for 0 <= i, with the end clipped to the length.
Slice(seq, i, j) == SubSeq(seq, i + 1, IF j < Len(seq) THEN j ELSE Len(seq))

\* Python's seq[-n:] for n > 0.
LastN(seq, n) == IF Len(seq) <= n THEN seq ELSE SubSeq(seq, Len(seq) - n + 1, Len(seq))

(***************************************************************************)
(* chunk_text, main.py:48-53.                                              *)
(***************************************************************************)
\* windows one word too long: words[i:i + chunk_size + 1]
RECURSIVE ChunkWords_overlapping(_, _, _)
ChunkWords_overlapping(words, i, chunk_size) ==
    IF i >= Len(words) THEN <<>>
    ELSE <<Join(<<" ">>, Slice(words, i, i + chunk_size + 1))>>
         \o ChunkWords_overlapping(words, i + chunk_size, chunk_size)

RECURSIVE ChunkWords(_, _, _)
ChunkWords(words, i, chunk_size) ==
    IF i >= Len(words) THEN <<>>
    ELSE <<Join(<<" ">>, Slice(words, i, i + chunk_size))>>
         \o ChunkWords(words, i + chunk_size, chunk_size)

chunk_text(text, chunk_size) == ChunkWords(Split(text), 0, chunk_size)

(***************************************************************************)
(* Results of calls that can raise.                                        *)
(***************************************************************************)
Returned(v) == [ok |-> TRUE, val |-> v, error |-> "none"]
Raised(site) == [ok |-> FALSE, val |-> <<>>, error |-> site]

(***************************************************************************)
(* The embedding service behind embed_text, main.py:58-64.  It answers     *)
(* with a vector of integers, or fails.  w is the world a request runs     *)
(* in: what the collaborators (Firestore, the embedding and generation     *)
(* services, the clock) answer during that request.                        *)
(***************************************************************************)
Fee5k == <<"f", "e", "e", " ", "5", "k">>
Fee9k == <<"f", "e", "e", " ", "9", "k">>
LpuIn == <<"l", "p", "u", " ", "i", "n">>

HelloFees == <<"h", "e", "l", "l", "o", ",", " ", "w", "h", "a", "t", " ", "a", "r", "e", " ", "L", "P", "U", " ", "f", "e", "e", "s">>
LpuFees == <<"l", "p", "u", " ", "f", "e", "e", "s">>

\* The service's answers: a fixed vector for each text.
ServiceVector(text) ==
    CASE text = Fee5k -> <<1, 0>>
      [] text = Fee9k -> <<1, 0>>
      [] text = LpuIn -> <<1, 1>>
      [] text = HelloFees -> <<1, 0>>
      [] text = LpuFees -> <<0, 1>>
      [] OTHER -> <<-1, 0>>

embed_text(text, w) ==
    IF text \in w.embed_down
    THEN Raised("embed_text")
    ELSE Returned(ServiceVector(text))

(***************************************************************************)
(* cosine_similarity of two vectors, main.py:114-116, as the exact         *)
(* rational it is the square root of: the score is d / sqrt(n), kept as    *)
(* the pair (d, n) with n > 0.  sklearn normalises a zero vector to the    *)
(* zero vector, so the score against it is 0.                              *)
(***************************************************************************)
Dot(u, v) == u[1] * v[1] + u[2] * v[2]

cosine_similarity(u, v) ==
    IF Dot(u, u) = 0 \/ Dot(v, v) = 0
    THEN [d |-> 0, n |-> 1]
    ELSE [d |-> Dot(u, v), n |-> Dot(u, u) * Dot(v, v)]

SignedSquare(x) == IF x >= 0 THEN x * x ELSE -(x * x)

\* score a < score b
ScoreLess(a, b) == SignedSquare(a.d) * b.n < SignedSquare(b.d) * a.n

\* the test of main.py:117 with <= for >=
ScoreAtMost(score, num, den) ==
    SignedSquare(score.d) * den * den <= SignedSquare(num) * score.n

\* score >= num / den, den > 0
ScoreAtLeast(score, num, den) ==
    SignedSquare(score.d) * den * den >= SignedSquare(num) * score.n

(***************************************************************************)
(* semantic_search, main.py:109-121.                                       *)
(***************************************************************************)
\* main.py:113-118, the scored list in document order
RECURSIVE ScoreDocuments(_, _, _, _)
ScoreDocuments(query_vec, documents, num, den) ==
    IF documents = <<>> THEN <<>>
    ELSE LET doc == Head(documents)
             score == cosine_similarity(query_vec, doc.embedding)
             rest == ScoreDocuments(query_vec, Tail(documents), num, den)
         IN  IF ScoreAtLeast(score, num, den)
             THEN <<[score |-> score, doc |-> doc]>> \o rest
             ELSE rest

\* a sort that is not stable: an entry goes before the entries of equal score
RECURSIVE InsertDescending_unstable(_, _)
InsertDescending_unstable(sorted, e) ==
    IF sorted = <<>> THEN <<e>>
    ELSE IF ~ScoreLess(e.score, Head(sorted).score)
         THEN <<e>> \o sorted
         ELSE <<Head(sorted)>> \o InsertDescending_unstable(Tail(sorted), e)

\* main.py:120, list.sort(reverse=True, key=score): stable, so entries with
\* equal scores keep their order.
RECURSIVE InsertDescending(_, _)
InsertDescending(sorted, e) ==
    IF sorted = <<>> THEN <<e>>
    ELSE IF ScoreLess(Head(sorted).score, e.score)
         THEN <<e>> \o sorted
         ELSE <<Head(sorted)>> \o InsertDescending(Tail(sorted), e)

RECURSIVE SortDescending(_)
SortDescending(scored) ==
    IF scored = <<>> THEN <<>>
    ELSE InsertDescending(SortDescending(SubSeq(scored, 1, Len(scored) - 1)),
                          scored[Len(scored)])

\* semantic_search without the slice [:top_k] of main.py:121
semantic_search_unsliced(query, documents, top_k, num, den, w) ==
    LET e == embed_text(query, w)
    IN  IF ~e.ok THEN Raised("embed_text(query)")
        ELSE LET scored == SortDescending(ScoreDocuments(e.val, documents, num, den))
             IN  Returned([i \in 1..Len(scored) |-> scored[i].doc])

semantic_search(query, documents, top_k, num, den, w) ==
    LET e == embed_text(query, w)
    IN  IF ~e.ok THEN Raised("embed_text(query)")
        ELSE LET scored == SortDescending(ScoreDocuments(e.val, documents, num, den))
                 top == Slice(scored, 0, top_k)
             IN  Returned([i \in 1..Len(top) |-> top[i].doc])

(***************************************************************************)
(* load_admin_documents, main.py:69-90, and load_static_documents,         *)
(* main.py:95-104.  A loader returns the documents and the calls it made,  *)
(* or raises at the first call that fails.                                 *)
(***************************************************************************)
\* main.py:73-78: order_by("createdAt", DESCENDING).limit(150).stream()
RECURSIVE OrderByCreatedAtDesc(_)
OrderByCreatedAtDesc(docs) ==
    IF docs = {} THEN <<>>
    ELSE LET newest == CHOOSE d \in docs : \A e \in docs : e.createdAt <= d.createdAt
         IN  <<newest>> \o OrderByCreatedAtDesc(docs \ {newest})

QuerySnapshots(content) == Slice(OrderByCreatedAtDesc(content), 0, FetchLimit)

\* the inner loop, main.py:82-88 and main.py:97-103
RECURSIVE EmbedChunks(_, _, _, _)
EmbedChunks(chunks, source, title, w) ==
    IF chunks = <<>> THEN [ok |-> TRUE, val |-> <<>>, error |-> "none", calls |-> <<>>]
    ELSE LET e == embed_text(Head(chunks), w)
         IN  IF ~e.ok
             THEN [ok |-> FALSE, val |-> <<>>, error |-> "embed_text(chunk)",
                   calls |-> <<"embed_text">>]
             ELSE LET rest == EmbedChunks(Tail(chunks), source, title, w)
                      doc == [source |-> source, title |-> title,
                              text |-> Head(chunks), embedding |-> e.val]
                  IN  [rest EXCEPT !.val = IF rest.ok THEN <<doc>> \o rest.val ELSE <<>>,
                                   !.calls = <<"embed_text">> \o rest.calls]

\* the outer loop, main.py:80-88
RECURSIVE LoadSnapshots(_, _)
LoadSnapshots(snaps, w) ==
    IF snaps = <<>> THEN [ok |-> TRUE, val |-> <<>>, error |-> "none", calls |-> <<>>]
    ELSE LET d == Head(snaps)
             first == EmbedChunks(chunk_text(d.textContent, DefaultChunkSize),
                                  <<"Admin Dashboard">>, d.title, w)
         IN  IF ~first.ok THEN first
             ELSE LET rest == LoadSnapshots(Tail(snaps), w)
                  IN  [rest EXCEPT !.val = IF rest.ok THEN first.val \o rest.val ELSE <<>>,
                                   !.calls = first.calls \o rest.calls]

load_admin_documents(content, w) ==
    IF ~w.fetch_ok
    THEN [ok |-> FALSE, val |-> <<>>, error |-> "firestore", calls |-> <<"firestore">>]
    ELSE LET r == LoadSnapshots(QuerySnapshots(content), w)
         IN  [r EXCEPT !.calls = <<"firestore">> \o r.calls]

load_static_documents(static, w) ==
    EmbedChunks(chunk_text(static, DefaultChunkSize),
                <<"LPU Knowledge Base">>, <<"lpu_knowledge.txt">>, w)

(***************************************************************************)
(* conversation_memory and update_memory, main.py:126-132.  The memory is  *)
(* a function from the session ids seen so far to their histories.         *)
(***************************************************************************)
History(mem, session_id) == IF session_id \in DOMAIN mem THEN mem[session_id] ELSE <<>>

\* update_memory with the slice [:6] for [-6:]: it keeps the oldest turns
update_memory_keeps_oldest(mem, session_id, role, content) ==
    LET grown == Append(History(mem, session_id), [role |-> role, content |-> content])
    IN  [s \in DOMAIN mem \cup {session_id} |->
            IF s = session_id THEN Slice(grown, 0, MemoryLimit) ELSE mem[s]]

update_memory(mem, session_id, role, content) ==
    LET grown == Append(History(mem, session_id), [role |-> role, content |-> content])
    IN  [s \in DOMAIN mem \cup {session_id} |->
            IF s = session_id THEN LastN(grown, MemoryLimit) ELSE mem[s]]

(***************************************************************************)
(* welcome_message, main.py:137-147, and handle_time_date, main.py:152-162.*)
(***************************************************************************)
welcome_message == <<"Hello, welcome to LPU VertoSewa. How can I help you today?">>

Digit == <<"0", "1", "2", "3", "4", "5", "6", "7", "8", "9">>
TwoDigits(n) == <<Digit[((n \div 10) % 10) + 1], Digit[(n % 10) + 1]>>
MonthName == <<"January", "February", "March", "April", "May", "June", "July",
               "August", "September", "October", "November", "December">>

\* strftime('%H:%M %p'), the 24-hour clock for the 12-hour clock
FormatTime24(now) ==
    TwoDigits(now.hour) \o <<":">> \o TwoDigits(now.minute) \o <<" ">>
    \o <<IF now.hour < 12 THEN "AM" ELSE "PM">>

\* strftime('%I:%M %p')
FormatTime(now) ==
    LET h12 == IF now.hour % 12 = 0 THEN 12 ELSE now.hour % 12
    IN  TwoDigits(h12) \o <<":">> \o TwoDigits(now.minute) \o <<" ">>
        \o <<IF now.hour < 12 THEN "AM" ELSE "PM">>

\* strftime('%d %B %Y')
FormatDate(now) ==
    TwoDigits(now.day) \o <<" ", MonthName[now.month], " ">>
    \o TwoDigits(now.year \div 100) \o TwoDigits(now.year)

\* the literals of main.py:156 and main.py:159
TIME == <<"t", "i", "m", "e">>
TIMENOW == <<"t", "i", "m", "e", " ", "n", "o", "w">>
DATE == <<"d", "a", "t", "e">>
TODAYDATE == <<"t", "o", "d", "a", "y", " ", "d", "a", "t", "e">>
DATETODAY == <<"d", "a", "t", "e", " ", "t", "o", "d", "a", "y">>

\* Python's None, which is falsy like the empty string
NoneValue == <<>>

handle_time_date(text, now) ==
    IF text \in {TIME, TIMENOW}
    THEN <<"(clock) ">> \o FormatTime(now) \o <<" (IST)">>
    ELSE IF text \in {DATE, TODAYDATE, DATETODAY}
         THEN <<"(calendar) ">> \o FormatDate(now)
         ELSE NoneValue

(***************************************************************************)
(* gemini_general, main.py:167-180, and gemini_contextual, main.py:185-206.*)
(* The prompt is kept as its parts; the service answers w.gen_text or      *)
(* fails.                                                                  *)
(***************************************************************************)
NoPrompt == [kind |-> "none", question |-> <<>>, context |-> <<>>, memory |-> <<>>]

gemini_general(question, w) ==
    LET prompt == [kind |-> "general", question |-> question,
                   context |-> <<>>, memory |-> <<>>]
    IN  IF ~w.gen_ok
        THEN [ok |-> FALSE, val |-> <<>>, error |-> "generate_content", prompt |-> prompt]
        ELSE [ok |-> TRUE, val |-> Strip(w.gen_text), error |-> "none", prompt |-> prompt]

gemini_contextual(question, context, memory, w) ==
    LET prompt == [kind |-> "contextual", question |-> question,
                   context |-> context, memory |-> memory]
    IN  IF ~w.gen_ok
        THEN [ok |-> FALSE, val |-> <<>>, error |-> "generate_content", prompt |-> prompt]
        ELSE [ok |-> TRUE, val |-> Strip(w.gen_text), error |-> "none", prompt |-> prompt]

(***************************************************************************)
(* process_message, main.py:211-261.  It returns what the call did: ok     *)
(* (FALSE when an exception left it), the reply, the memory after it, the  *)
(* return statement taken (branch), the calls made in order, the prompt    *)
(* given to the generation service, the update_memory calls made           *)
(* (appends), the documents loaded and the documents retrieved.            *)
(***************************************************************************)
\* the literals of main.py:221
Greetings == {<<"h", "i">>, <<"h", "i", "i">>, <<"h", "e", "l", "l", "o">>, <<"h", "e", "y">>, <<"h", "a", "i">>}

Outcome(mem) ==
    [ok |-> TRUE, reply |-> <<>>, memory |-> mem, branch |-> "none", error |-> "none",
     calls |-> <<>>, prompt |-> NoPrompt, appends |-> <<>>, all_docs |-> <<>>,
     relevant |-> <<>>]

\* an exception leaves process_message: nothing is returned
Propagate(out, error, calls) ==
    [out EXCEPT !.ok = FALSE, !.branch = "raised", !.error = error, !.calls = calls]

\* iteration over a Python set of strings: some enumeration of the set
RECURSIVE Enumerate(_)
Enumerate(S) ==
    IF S = {} THEN <<>>
    ELSE LET x == CHOOSE y \in S : TRUE IN <<x>> \o Enumerate(S \ {x})

SetIteration(S) == Enumerate(S)

\* first_message without the update_memory call of main.py:217
first_message_not_recorded(mem, session_id) ==
    LET created == [s \in DOMAIN mem \cup {session_id} |->
                       IF s = session_id THEN <<>> ELSE mem[s]]
    IN  [Outcome(mem) EXCEPT
            !.memory = created,
            !.reply = welcome_message,
            !.branch = "welcome"]

\* main.py:215-218
first_message(mem, session_id) ==
    LET created == [s \in DOMAIN mem \cup {session_id} |->
                       IF s = session_id THEN <<>> ELSE mem[s]]
    IN  [Outcome(mem) EXCEPT
            !.memory = update_memory(created, session_id, "assistant", welcome_message),
            !.appends = <<[role |-> "assistant", content |-> welcome_message]>>,
            !.reply = welcome_message,
            !.branch = "welcome"]

\* main.py:238-243
RECURSIVE BuildContext(_)
BuildContext(relevant) ==
    IF relevant = <<>> THEN <<>>
    ELSE LET doc == Head(relevant)
         IN  <<"\n[">> \o doc.source \o <<" - ">> \o doc.title \o <<"]\n">>
             \o doc.text \o <<"\n">> \o BuildContext(Tail(relevant))

Sources(relevant) ==
    {relevant[i].source \o <<" (">> \o relevant[i].title \o <<")">> :
        i \in 1..Len(relevant)}

\* main.py:245-248
Transcript(history) ==
    Join(<<"\n">>, [i \in 1..Len(history) |->
                        <<history[i].role, ": ">> \o history[i].content])

\* main.py:251
SourceLines(sources) ==
    LET order == SetIteration(sources)
    IN  Join(<<"\n">>, [i \in 1..Len(order) |-> <<"- ">> \o order[i]])

\* Remember without the update_memory call of the user turn
Remember_assistant_only(out, session_id, message, answer) ==
    [out EXCEPT
        !.memory = update_memory(out.memory, session_id, "assistant", answer),
        !.appends = <<[role |-> "assistant", content |-> answer]>>,
        !.reply = answer]

\* main.py:253-255 and main.py:259-261
Remember(out, session_id, message, answer) ==
    [out EXCEPT
        !.memory = update_memory(update_memory(out.memory, session_id, "user", message),
                                 session_id, "assistant", answer),
        !.appends = <<[role |-> "user", content |-> message],
                      [role |-> "assistant", content |-> answer]>>,
        !.reply = answer]

\* answer_with_context with a list for sources = set() at main.py:241: one
\* line for each retrieved document
answer_with_context_cites_each_chunk(out, session_id, message, w) ==
    LET memory == Transcript(History(out.memory, session_id))
        g == gemini_contextual(message, BuildContext(out.relevant), memory, w)
        called == [out EXCEPT !.calls = out.calls \o <<"gemini_contextual">>,
                              !.prompt = g.prompt]
        lines == [i \in 1..Len(out.relevant) |->
                     <<"- ">> \o out.relevant[i].source \o <<" (">>
                     \o out.relevant[i].title \o <<")">>]
    IN  IF ~g.ok THEN Propagate(called, g.error, called.calls)
        ELSE LET answer == g.val \o <<"\n\nSources:\n">> \o Join(<<"\n">>, lines)
             IN  [Remember(called, session_id, message, answer)
                     EXCEPT !.branch = "contextual"]

\* main.py:237-255
answer_with_context(out, session_id, message, w) ==
    LET memory == Transcript(History(out.memory, session_id))
        g == gemini_contextual(message, BuildContext(out.relevant), memory, w)
        called == [out EXCEPT !.calls = out.calls \o <<"gemini_contextual">>,
                              !.prompt = g.prompt]
    IN  IF ~g.ok THEN Propagate(called, g.error, called.calls)
        ELSE LET answer == g.val \o <<"\n\nSources:\n">>
                           \o SourceLines(Sources(out.relevant))
             IN  [Remember(called, session_id, message, answer)
                     EXCEPT !.branch = "contextual"]

\* answer_general with the user turn recorded before the generation call
answer_general_user_first(out, session_id, message, w) ==
    LET g == gemini_general(message, w)
        noted == [out EXCEPT
                     !.memory = update_memory(out.memory, session_id, "user", message),
                     !.appends = <<[role |-> "user", content |-> message]>>]
        called == [noted EXCEPT !.calls = out.calls \o <<"gemini_general">>,
                                !.prompt = g.prompt]
    IN  IF ~g.ok THEN Propagate(called, g.error, called.calls)
        ELSE [Remember(called, session_id, message, g.val) EXCEPT !.branch = "general"]

\* main.py:257-261
answer_general(out, session_id, message, w) ==
    LET g == gemini_general(message, w)
        called == [out EXCEPT !.calls = out.calls \o <<"gemini_general">>,
                              !.prompt = g.prompt]
    IN  IF ~g.ok THEN Propagate(called, g.error, called.calls)
        ELSE [Remember(called, session_id, message, g.val) EXCEPT !.branch = "general"]

\* main.py:229-261
retrieve_and_answer(out, session_id, message, content, static, w) ==
    LET admin == load_admin_documents(content, w)
        c1 == out.calls \o <<"load_admin_documents">> \o admin.calls
    IN  IF ~admin.ok THEN Propagate(out, admin.error, c1)
        ELSE
        LET stat == load_static_documents(static, w)
            c2 == c1 \o <<"load_static_documents">> \o stat.calls
        IN  IF ~stat.ok THEN Propagate(out, stat.error, c2)
            ELSE
            LET all_docs == admin.val \o stat.val
                found == semantic_search(message, all_docs, DefaultTopK,
                                         ThresholdNum, ThresholdDen, w)
                c3 == c2 \o <<"semantic_search", "embed_text">>
                loaded == [out EXCEPT !.all_docs = all_docs, !.calls = c3]
            IN  IF ~found.ok THEN Propagate(loaded, found.error, c3)
                ELSE LET searched == [loaded EXCEPT !.relevant = found.val]
                     IN  IF found.val # <<>>
                         THEN answer_with_context(searched, session_id, message, w)
                         ELSE answer_general(searched, session_id, message, w)

is_greeting(text) == text \in Greetings

GreetingReply == <<"Hello, how can I help you?">>

\* process_message taking a session for new when its history holds no welcome
\* turn, for the key test of main.py:215
process_message_welcome_by_history(mem, session_id, message, content, static, w) ==
    LET text == Strip(Lower(message))
    IN  IF \A i \in 1..Len(History(mem, session_id)) :
              History(mem, session_id)[i].content # welcome_message
        THEN first_message(mem, session_id)
        ELSE IF is_greeting(text)
        THEN [Outcome(mem) EXCEPT !.reply = GreetingReply,
                                  !.branch = "greeting"]
        ELSE LET td == handle_time_date(text, w.now)
                 timed == [Outcome(mem) EXCEPT !.calls = <<"handle_time_date">>]
             IN  IF td # NoneValue
                 THEN [timed EXCEPT !.reply = td, !.branch = "time_date"]
                 ELSE retrieve_and_answer(timed, session_id, message, content, static, w)

process_message(mem, session_id, message, content, static, w) ==
    LET text == Strip(Lower(message))
    IN  IF session_id \notin DOMAIN mem
        THEN first_message(mem, session_id)
        ELSE IF is_greeting(text)
        THEN [Outcome(mem) EXCEPT !.reply = GreetingReply,
                                  !.branch = "greeting"]
        ELSE LET td == handle_time_date(text, w.now)
                 timed == [Outcome(mem) EXCEPT !.calls = <<"handle_time_date">>]
             IN  IF td # NoneValue
                 THEN [timed EXCEPT !.reply = td, !.branch = "time_date"]
                 ELSE retrieve_and_answer(timed, session_id, message, content, static, w)

(***************************************************************************)
(* chat_api, main.py:266-275.  data is the JSON body: a function from the  *)
(* keys it holds to their values.                                          *)
(***************************************************************************)
Get(data, key, default) == IF key \in DOMAIN data THEN data[key] ELSE default

RejectionReply == <<"Please enter a valid question.">>

\* chat_api without the .strip() of main.py:269
chat_api_not_stripped(mem, data, content, static, w) ==
    LET message == Get(data, "message", <<>>)
        session_id == Get(data, "session_id", "default")
    IN  IF message = <<>>
        THEN [Outcome(mem) EXCEPT !.reply = RejectionReply, !.branch = "rejected"]
        ELSE process_message(mem, session_id, message, content, static, w)

chat_api(mem, data, content, static, w) ==
    LET message == Strip(Get(data, "message", <<>>))
        session_id == Get(data, "session_id", "default")
    IN  IF message = <<>>
        THEN [Outcome(mem) EXCEPT !.reply = RejectionReply, !.branch = "rejected"]
        ELSE process_message(mem, session_id, message, content, static, w)

(***************************************************************************)
(* The requests and the worlds the model draws from.                       *)
(***************************************************************************)
SessionIds == {"default", "s1"}

Messages == {<<>>, <<" ", " ">>, <<" ", "H", "i">>, TIME, DATE, HelloFees, LpuFees}

\* JSON bodies: with both keys, without session_id, without message
Requests ==
    {[message |-> m, session_id |-> "s1"] : m \in Messages}
    \cup {[message |-> m] : m \in {<<>>, TIME, HelloFees}}
    \cup {[session_id |-> "s1"]}

AdminOld == [title |-> <<"Fees">>, textContent |-> Fee5k, createdAt |-> 1]
AdminNew == [title |-> <<"Fees">>, textContent |-> <<" ">> \o Fee9k, createdAt |-> 2]

Collections == {{}, {AdminOld}, {AdminOld, AdminNew}}
StaticTexts == {<<>>, <<"l", "p", "u", " ", " ", "i", "n", "\n">>}

Instants ==
    {[year |-> 2026, month |-> 11, day |-> 2, hour |-> 0, minute |-> 5],
     [year |-> 2026, month |-> 11, day |-> 2, hour |-> 13, minute |-> 30]}
NoInstant == [year |-> 0, month |-> 0, day |-> 0, hour |-> 0, minute |-> 0]

GenTexts == {<<" ", "It is 5k.", "\n">>}

\* the texts the embedding service may fail on during one request
EmbedDown == {{}, {Fee5k}, {LpuIn}, {HelloFees, LpuFees}}

\* At most one collaborator fails during a request: the first failure ends
\* the request, so later ones would not be observed.
Worlds ==
    {w \in [fetch_ok : BOOLEAN, embed_down : EmbedDown, gen_ok : BOOLEAN,
            gen_text : GenTexts, now : Instants] :
        /\ ~w.fetch_ok => (w.embed_down = {} /\ w.gen_ok)
        /\ w.embed_down # {} => w.gen_ok}

(***************************************************************************)
(* The state machine: one action, a request handled by chat_api.           *)
(***************************************************************************)
NoRequest == [x \in {} |-> <<>>]
NotCalled == [done |-> FALSE, out |-> Raised("none")]

Record(data, out, w) ==
    [data |-> data, ok |-> out.ok, reply |-> out.reply, branch |-> out.branch,
     error |-> out.error, calls |-> out.calls, prompt |-> out.prompt,
     appends |-> out.appends, all_docs |-> out.all_docs, relevant |-> out.relevant,
     clock |-> IF out.branch = "time_date" THEN w.now ELSE NoInstant]

TotalTurns == Len(appended["default"]) + Len(appended["s1"])

Init ==
    /\ conversation_memory = [s \in {} |-> <<>>]
    /\ lpu_content \in Collections
    /\ STATIC_LPU \in StaticTexts
    /\ last = Record(NoRequest, Outcome(<<>>), [now |-> NoInstant])
    /\ appended = [s \in SessionIds |-> <<>>]
    /\ ss_args = NoRequest
    /\ ss_result = NotCalled
    /\ inflight = {}
    /\ writers = [s \in SessionIds |-> <<>>]
    /\ next_id = 1
    /\ ct_args = NoRequest
    /\ ct_result = NotCalled

ChatApi(data, w) ==
    /\ TotalTurns < MaxTurns
    /\ \E out \in {chat_api(conversation_memory, data, lpu_content, STATIC_LPU, w)} :
       LET session_id == Get(data, "session_id", "default")
       IN  /\ conversation_memory' = out.memory
           /\ appended' = [appended EXCEPT ![session_id] = @ \o out.appends]
           /\ last' = Record(data, out, w)
    /\ UNCHANGED <<lpu_content, STATIC_LPU, ss_args, ss_result, conc_vars, chunk_vars>>

Next == \E data \in Requests, w \in Worlds : ChatApi(data, w)

Spec == Init /\ [][Next]_vars

(***************************************************************************)
(* A second state machine: semantic_search called directly, on arguments   *)
(* drawn from bounded sets.                                                *)
(***************************************************************************)
SearchVectors == {<<1, 0>>, <<0, 1>>, <<1, 1>>, <<-1, 0>>, <<0, 0>>}
SearchQueries == {HelloFees, LpuFees, TIME}
SearchThresholds == {<<-1, 2>>, <<0, 1>>, <<ThresholdNum, ThresholdDen>>, <<1, 1>>}

SearchDocument(i, v) ==
    [source |-> <<"Admin Dashboard">>, title |-> <<"Fees">>,
     text |-> <<"chunk ", Digit[i + 1]>>, embedding |-> v]

SearchDocuments ==
    UNION {{[i \in 1..n |-> SearchDocument(i, vs[i])] : vs \in [1..n -> SearchVectors]} :
              n \in 0..MaxDocs}

SearchArgs ==
    [query : SearchQueries, documents : SearchDocuments, top_k : 0..MaxTopK,
     threshold : SearchThresholds, embed_down : {{}, SearchQueries}]

SearchInit ==
    /\ conversation_memory = [s \in {} |-> <<>>]
    /\ lpu_content = {}
    /\ STATIC_LPU = <<>>
    /\ last = Record(NoRequest, Outcome(<<>>), [now |-> NoInstant])
    /\ appended = [s \in SessionIds |-> <<>>]
    /\ ss_args \in SearchArgs
    /\ ss_result = NotCalled
    /\ inflight = {}
    /\ writers = [s \in SessionIds |-> <<>>]
    /\ next_id = 1
    /\ ct_args = NoRequest
    /\ ct_result = NotCalled

SearchCall ==
    /\ ~ss_result.done
    /\ ss_result' =
          [done |-> TRUE,
           out |-> semantic_search(ss_args.query, ss_args.documents, ss_args.top_k,
                                   ss_args.threshold[1], ss_args.threshold[2],
                                   [embed_down |-> ss_args.embed_down])]
    /\ UNCHANGED <<conversation_memory, lpu_content, STATIC_LPU, last, appended, ss_args,
                   conc_vars, chunk_vars>>

SearchNext == SearchCall

SpecSearch == SearchInit /\ [][SearchNext]_vars

(***************************************************************************)
(* A third state machine: requests handled concurrently.  chat_api is a    *)
(* coroutine (async def, main.py:267) that FastAPI runs on the event loop: *)
(* it gives up control only at an await, and its one await is              *)
(* request.json() at main.py:268, before it reads any state.               *)
(* process_message is a plain function, so from there the handler runs to  *)
(* its end without another request being served.  A handler that is not a  *)
(* coroutine runs in a thread pool and can be preempted between two        *)
(* statements, here between its update_memory calls.                       *)
(***************************************************************************)
\* chat_api declared with def for async def: it runs in the thread pool
chat_api_in_threadpool == FALSE

\* main.py:267
chat_api_is_coroutine == TRUE

ConcurrentRequests ==
    {[message |-> m, session_id |-> "s1"] : m \in {HelloFees, LpuFees}}
    \cup {[message |-> LpuFees]}

\* the handler of a request starts and is suspended at main.py:268
Arrive(data) ==
    /\ next_id <= MaxArrivals
    /\ inflight' = inflight \cup {[id |-> next_id, data |-> data, pending |-> <<>>]}
    /\ next_id' = next_id + 1
    /\ UNCHANGED <<conversation_memory, lpu_content, STATIC_LPU, last, appended,
                   ss_args, ss_result, writers, chunk_vars>>

\* the turns are appended by request r, one update_memory call each
RECURSIVE ApplyAppends(_, _, _)
ApplyAppends(mem, session_id, turns) ==
    IF turns = <<>> THEN mem
    ELSE ApplyAppends(update_memory(mem, session_id, Head(turns).role, Head(turns).content),
                      session_id, Tail(turns))

Written(r, session_id, turns) ==
    /\ appended' = [appended EXCEPT ![session_id] = @ \o turns]
    /\ writers' = [writers EXCEPT ![session_id] = @ \o [i \in 1..Len(turns) |-> r.id]]

\* the handler of r runs: from main.py:269 to its end when it is a coroutine,
\* to its next update_memory call when it is not
Run(r, w) ==
    /\ r \in inflight
    /\ UNCHANGED <<lpu_content, STATIC_LPU, ss_args, ss_result, next_id, chunk_vars>>
    /\ LET session_id == Get(r.data, "session_id", "default")
       IN  IF r.pending # <<>>
           THEN /\ conversation_memory' =
                      ApplyAppends(conversation_memory, session_id, <<Head(r.pending)>>)
                /\ Written(r, session_id, <<Head(r.pending)>>)
                /\ inflight' = (inflight \ {r}) \cup
                      (IF Tail(r.pending) = <<>> THEN {}
                       ELSE {[r EXCEPT !.pending = Tail(r.pending)]})
                /\ UNCHANGED last
           ELSE \E out \in {chat_api(conversation_memory, r.data, lpu_content,
                                      STATIC_LPU, w)} :
                /\ last' = Record(r.data, out, w)
                /\ IF chat_api_is_coroutine \/ Len(out.appends) <= 1
                   THEN /\ conversation_memory' = out.memory
                        /\ Written(r, session_id, out.appends)
                        /\ inflight' = inflight \ {r}
                   ELSE /\ conversation_memory' =
                              ApplyAppends(conversation_memory, session_id,
                                           <<Head(out.appends)>>)
                        /\ Written(r, session_id, <<Head(out.appends)>>)
                        /\ inflight' = (inflight \ {r}) \cup
                              {[r EXCEPT !.pending = Tail(out.appends)]}

ConcurrentNext ==
    \/ \E data \in ConcurrentRequests : Arrive(data)
    \/ \E r \in inflight, w \in Worlds : Run(r, w)

SpecConcurrent == Init /\ [][ConcurrentNext]_vars

(***************************************************************************)
(* A fourth state machine: chunk_text called directly, on every text over  *)
(* a small alphabet and every chunk_size from 1.                           *)
(***************************************************************************)
ChunkAlphabet == {"a", "b", " ", "\n"}

ChunkTexts == UNION {[1..n -> ChunkAlphabet] : n \in 0..MaxTextLen}

ChunkArgs == [text : ChunkTexts, chunk_size : 1..MaxWindow]

ChunkInit ==
    /\ conversation_memory = [s \in {} |-> <<>>]
    /\ lpu_content = {}
    /\ STATIC_LPU = <<>>
    /\ last = Record(NoRequest, Outcome(<<>>), [now |-> NoInstant])
    /\ appended = [s \in SessionIds |-> <<>>]
    /\ ss_args = NoRequest
    /\ ss_result = NotCalled
    /\ inflight = {}
    /\ writers = [s \in SessionIds |-> <<>>]
    /\ next_id = 1
    /\ ct_args \in ChunkArgs
    /\ ct_result = NotCalled

ChunkCall ==
    /\ ~ct_result.done
    /\ ct_result' = [done |-> TRUE,
                     out |-> Returned(chunk_text(ct_args.text, ct_args.chunk_size))]
    /\ UNCHANGED <<conversation_memory, lpu_content, STATIC_LPU, last, appended,
                   ss_args, ss_result, conc_vars, ct_args>>

ChunkNext == ChunkCall

SpecChunk == ChunkInit /\ [][ChunkNext]_vars

(***************************************************************************)
(* The claims.                                                             *)
(***************************************************************************)
\* the request last handled, as chat_api reads it
LastMessage == Strip(Get(last.data, "message", <<>>))
LastSession == Get(last.data, "session_id", "default")
WelcomeTurn == [role |-> "assistant", content |-> welcome_message]

\* C1: after any sequence of update_memory calls on a session, the session's
\* history is exactly the last min(n, 6) of the n turns appended to it, in
\* append order; its length is never greater than 6.
C1_HistoryIsLastSixAppended ==
    \A s \in SessionIds :
        LET n == Len(appended[s])
            k == IF n < 6 THEN n ELSE 6
            h == History(conversation_memory, s)
        IN  /\ h = SubSeq(appended[s], n - k + 1, n)
            /\ Len(h) <= 6
            /\ (s \in DOMAIN conversation_memory <=> n > 0)

\* C1 witness: a session was given more than 6 turns, so the oldest was dropped.
C1_Witness ==
    \E s \in SessionIds :
        /\ Len(appended[s]) > 6
        /\ conversation_memory[s][1] = appended[s][Len(appended[s]) - 5]
        /\ conversation_memory[s][1] # appended[s][1]

\* the request a step handles, as chat_api reads it
NextMessage == Strip(Get(last'.data, "message", <<>>))
NextSession == Get(last'.data, "session_id", "default")

\* C2: the first process_message call for a session id not yet seen returns
\* the welcome text, records exactly one assistant turn holding it, and loads,
\* embeds, classifies and generates nothing; the call that follows the welcome
\* on the same session id does not return the welcome text.
C2_Step ==
    NextMessage # <<>> =>
        /\ NextSession \notin DOMAIN conversation_memory =>
              /\ last'.ok
              /\ last'.reply = welcome_message
              /\ conversation_memory'[NextSession] = <<WelcomeTurn>>
              /\ appended'[NextSession] = <<WelcomeTurn>>
              /\ last'.calls = <<>>
              /\ last'.prompt = NoPrompt
              /\ last'.all_docs = <<>>
        /\ (/\ NextSession \in DOMAIN conversation_memory
            /\ appended[NextSession] = <<WelcomeTurn>>) =>
              last'.reply # welcome_message

C2_WelcomeOnce == [][C2_Step]_vars

\* C2 witness: the call after the welcome on session s1 was answered by
\* generation, not by the welcome.
C2_Witness ==
    /\ LastSession = "s1"
    /\ last.branch = "general"
    /\ Len(appended["s1"]) = 3
    /\ appended["s1"][1] = WelcomeTurn
    /\ last.reply # welcome_message

\* C3: a request whose message is missing, empty or whitespace-only gets the
\* rejection reply, with no call made and the memory unchanged, so that an
\* unseen session id stays unseen and is welcomed on its next valid message.
C3_Step ==
    /\ NextMessage = <<>> =>
          /\ last'.ok
          /\ last'.reply = RejectionReply
          /\ last'.calls = <<>>
          /\ last'.prompt = NoPrompt
          /\ last'.all_docs = <<>>
          /\ conversation_memory' = conversation_memory
          /\ appended' = appended
    /\ (/\ last.branch = "rejected"
        /\ LastSession \notin DOMAIN conversation_memory
        /\ NextSession = LastSession
        /\ NextMessage # <<>>) =>
          last'.reply = welcome_message

C3_BlankRejected == [][C3_Step]_vars

\* C3 witness: a whitespace-only message was rejected and its session id is
\* still unseen.
C3_Witness ==
    /\ last.branch = "rejected"
    /\ last.reply = RejectionReply
    /\ "message" \in DOMAIN last.data
    /\ last.data.message = <<" ", " ">>
    /\ LastSession \notin DOMAIN conversation_memory

(***************************************************************************)
(* The categories of the specification's classifier that the claims name:  *)
(* a greeting is a message that equals or starts with a greeting token, a  *)
(* domain query one that holds a domain keyword and is neither a greeting  *)
(* nor a time or date query.                                               *)
(***************************************************************************)
StartsWith(text, prefix) ==
    Len(text) >= Len(prefix) /\ SubSeq(text, 1, Len(prefix)) = prefix

Contains(text, part) ==
    \E i \in 1..(Len(text) - Len(part) + 1) : SubSeq(text, i, i + Len(part) - 1) = part

StartsWithGreeting(text) == \E g \in Greetings : StartsWith(text, g)

DomainKeywords == {<<"l", "p", "u">>, <<"f", "e", "e", "s">>}

IsDomainQuery(text) ==
    /\ ~StartsWithGreeting(text)
    /\ ~Contains(text, TIME)
    /\ ~Contains(text, DATE)
    /\ \E k \in DomainKeywords : Contains(text, k)

\* C4: on an already-seen session, a message that equals or starts with a
\* greeting token gets the fixed greeting reply and reaches neither retrieval
\* nor generation, also when it holds domain keywords.
C4_Step ==
    (/\ NextMessage # <<>>
     /\ NextSession \in DOMAIN conversation_memory
     /\ StartsWithGreeting(Strip(Lower(NextMessage)))) =>
        /\ last'.branch = "greeting"
        /\ last'.reply = GreetingReply
        /\ last'.calls = <<>>
        /\ last'.prompt = NoPrompt

C4_GreetingWins == [][C4_Step]_vars

\* the chunks of the static text
StaticChunks == chunk_text(STATIC_LPU, DefaultChunkSize)

\* C5: a domain query with an empty retrieval result and an empty static
\* corpus is never passed to the general-knowledge generation path.
C5_NoOpenGenerationWithoutContext ==
    (/\ IsDomainQuery(Strip(Lower(LastMessage)))
     /\ last.relevant = <<>>
     /\ StaticChunks = <<>>) =>
        last.prompt.kind # "general"

\* C6: a failure of the generation call does not leave process_message as an
\* exception: a reply is returned.
C6_GenerationFailureReplied ==
    last.error = "generate_content" => (last.ok /\ last.reply # <<>>)

\* C7: when the query cannot be embedded the search result is empty and the
\* request goes on without retrieval.
C7_QueryEmbeddingFailureSoft ==
    last.error = "embed_text(query)" =>
        (last.ok /\ last.relevant = <<>> /\ last.reply # <<>>)

\* the number of chunks of the whole corpus, administrative and static
RECURSIVE CountChunks(_)
CountChunks(snaps) ==
    IF snaps = <<>> THEN 0
    ELSE Len(chunk_text(Head(snaps).textContent, DefaultChunkSize))
         + CountChunks(Tail(snaps))

CorpusChunks == CountChunks(QuerySnapshots(lpu_content)) + Len(StaticChunks)

\* C8: when the embedding of one chunk fails during loading, only that chunk
\* is dropped: the other chunks are all in the document list, each with its
\* embedding, and the request is not aborted.
C8_OnlyFailedChunkDropped ==
    last.error = "embed_text(chunk)" =>
        /\ last.ok
        /\ Len(last.all_docs) = CorpusChunks - 1
        /\ \A i \in 1..Len(last.all_docs) : last.all_docs[i].embedding # NoneValue

\* C9: when fetching the administrative documents fails, retrieval runs over
\* the static chunks alone and a reply is still returned.
C9_StaticOnlyOnFetchFailure ==
    last.error = "firestore" =>
        /\ last.ok
        /\ last.reply # <<>>
        /\ [i \in 1..Len(last.all_docs) |-> last.all_docs[i].text] = StaticChunks

\* C10: semantic_search returns at most top_k entries.
C10_AtMostTopK ==
    (ss_result.done /\ ss_result.out.ok) => Len(ss_result.out.val) <= ss_args.top_k

\* C10 witness: more than top_k documents reach the threshold and exactly
\* top_k are returned.
C10_Witness ==
    /\ ss_result.done
    /\ ss_result.out.ok
    /\ ss_args.top_k > 0
    /\ Len(ss_result.out.val) = ss_args.top_k
    /\ Len(ScoreDocuments(ServiceVector(ss_args.query), ss_args.documents,
                          ss_args.threshold[1], ss_args.threshold[2])) > ss_args.top_k

\* the direct call's arguments with another threshold
SearchWithThreshold(t) ==
    semantic_search(ss_args.query, ss_args.documents, ss_args.top_k, t[1], t[2],
                    [embed_down |-> ss_args.embed_down])

\* thresholds t1 <= t2, as fractions with positive denominators
ThresholdLeq(t1, t2) == t1[1] * t2[2] <= t2[1] * t1[2]

\* C11: for a fixed query, document list and top_k, and thresholds t1 <= t2,
\* the result with threshold t2 is never larger than the result with t1.
C11_ThresholdMonotone ==
    (ss_result.done /\ ss_result.out.ok) =>
        \A t2 \in SearchThresholds :
            ThresholdLeq(ss_args.threshold, t2) =>
                /\ SearchWithThreshold(t2).ok
                /\ Len(SearchWithThreshold(t2).val) <= Len(ss_result.out.val)

\* C11 witness: raising the threshold made a non-empty result strictly smaller,
\* without emptying it.
C11_Witness ==
    /\ ss_result.done
    /\ ss_result.out.ok
    /\ \E t2 \in SearchThresholds :
          /\ ThresholdLeq(ss_args.threshold, t2)
          /\ Len(SearchWithThreshold(t2).val) < Len(ss_result.out.val)
          /\ Len(SearchWithThreshold(t2).val) > 0

\* the time of day of the model's instants, on the 12-hour clock
ClockReading(instant) ==
    CASE instant.hour = 0 /\ instant.minute = 5 -> <<"1", "2", ":", "0", "5", " ", "AM">>
      [] instant.hour = 13 /\ instant.minute = 30 -> <<"0", "1", ":", "3", "0", " ", "PM">>
      [] OTHER -> <<"no such instant">>

\* C12: on an already-seen session the message "time" is answered with the
\* time of the current instant, and nothing is loaded, embedded or generated,
\* whatever the corpus holds and whichever collaborator is failing.
C12_Step ==
    (/\ NextMessage = TIME
     /\ NextSession \in DOMAIN conversation_memory) =>
        /\ last'.ok
        /\ last'.clock \in Instants
        /\ last'.reply = <<"(clock) ">> \o ClockReading(last'.clock) \o <<" (IST)">>
        /\ last'.calls = <<"handle_time_date">>
        /\ last'.prompt = NoPrompt
        /\ last'.all_docs = <<>>
        /\ conversation_memory' = conversation_memory

C12_TimeAnsweredLocally == [][C12_Step]_vars

\* C12 witness: "time" was answered at 13:30 with a corpus that is not empty.
C12_Witness ==
    /\ LastMessage = TIME
    /\ last.branch = "time_date"
    /\ last.clock.hour = 13
    /\ last.reply = <<"(clock) ", "0", "1", ":", "3", "0", " ", "PM", " (IST)">>
    /\ lpu_content # {}
    /\ STATIC_LPU # <<>>

\* C13: with requests handled concurrently, the user turn and the assistant
\* turn that one request appends are adjacent in the session's history, no
\* other request's turn lies between them, and no appended turn is lost.
C13_WritesNotInterleaved ==
    \A s \in SessionIds :
        /\ Len(writers[s]) = Len(appended[s])
        /\ History(conversation_memory, s) = LastN(appended[s], 6)
        /\ \A i \in 1..Len(appended[s]) :
              appended[s][i].role = "user" =>
                  /\ i < Len(appended[s])
                  /\ writers[s][i + 1] = writers[s][i]
                  /\ appended[s][i + 1].role = "assistant"

\* C13 witness: two requests were in flight on one session at the same time
\* (the one that arrived later wrote first) and both appended their two turns.
C13_Witness ==
    \E s \in SessionIds : \E i, j \in 1..Len(writers[s]) :
        /\ i < j
        /\ writers[s][i] > writers[s][j]
        /\ appended[s][i].role = "user"
        /\ appended[s][j].role = "assistant"
        /\ inflight = {}

\* C14: on every generation call the transcript given to the generation
\* service is the session's history as it was before the request, and the
\* history is written only after the call has returned: it is unchanged when
\* the call fails, and extended by the two turns of the request otherwise.
C14_Step ==
    last'.prompt.kind # "none" =>
        /\ last'.prompt.memory = Transcript(History(conversation_memory, NextSession))
        /\ ~last'.ok => conversation_memory' = conversation_memory

C14_MemoryReadBeforeGeneration == [][C14_Step]_vars

\* the two turns a generation-backed reply appends
TurnsOf(message, reply) ==
    <<[role |-> "user", content |-> message], [role |-> "assistant", content |-> reply]>>

\* C15: a process_message call on an already-seen session either returns a
\* fixed reply (greeting, time, date) and leaves the session's history
\* unchanged, or returns a generation-backed reply and appends exactly two
\* turns, the user turn with the message and the assistant turn with the reply
\* returned, the history then being cut to its last 6.
C15_Step ==
    (/\ NextMessage # <<>>
     /\ NextSession \in DOMAIN conversation_memory
     /\ last'.ok) =>
        /\ last'.branch \in {"greeting", "time_date", "contextual", "general"}
        /\ last'.branch \in {"greeting", "time_date"} =>
              /\ conversation_memory' = conversation_memory
              /\ last'.prompt = NoPrompt
        /\ last'.branch \in {"contextual", "general"} =>
              /\ last'.prompt.kind = last'.branch
              /\ conversation_memory'[NextSession] =
                    LastN(conversation_memory[NextSession]
                              \o TurnsOf(NextMessage, last'.reply), 6)
              /\ \A s \in DOMAIN conversation_memory \ {NextSession} :
                    conversation_memory'[s] = conversation_memory[s]

C15_HistoryChangesOneOfTwoWays == [][C15_Step]_vars

\* C15 witness: a generation-backed reply on a session whose history was full,
\* so that the two appended turns pushed two older ones out.
C15_Witness ==
    /\ last.branch = "contextual"
    /\ Len(appended[LastSession]) = 7
    /\ History(conversation_memory, LastSession) =
          SubSeq(appended[LastSession], 2, 5) \o TurnsOf(LastMessage, last.reply)

\* the score of the i-th document of the direct call against its query
SearchScore(i) ==
    cosine_similarity(ServiceVector(ss_args.query), ss_args.documents[i].embedding)

\* the documents of the direct call that pass its threshold
SearchPassing ==
    {i \in 1..Len(ss_args.documents) :
        ScoreAtLeast(SearchScore(i), ss_args.threshold[1], ss_args.threshold[2])}

\* document i ranks before document j: greater score, or equal score and
\* earlier in the list given
RanksBefore(i, j) ==
    \/ ScoreLess(SearchScore(j), SearchScore(i))
    \/ /\ ~ScoreLess(SearchScore(i), SearchScore(j))
       /\ i < j

\* C16: semantic_search returns only documents whose score is at least the
\* threshold, by descending score, documents of equal score in the order of
\* the list given; the result is the first top_k entries of that ordering.
C16_RankedStableTopK ==
    (ss_result.done /\ ss_result.out.ok) =>
        LET found == ss_result.out.val
        IN  /\ Len(found) =
                  (IF ss_args.top_k < Cardinality(SearchPassing)
                   THEN ss_args.top_k ELSE Cardinality(SearchPassing))
            /\ \A k \in 1..Len(found) :
                  \E i \in SearchPassing :
                      /\ found[k] = ss_args.documents[i]
                      /\ Cardinality({j \in SearchPassing : RanksBefore(j, i)}) = k - 1

\* C16 witness: three documents pass; the second and third have equal scores
\* above the first's and are returned in that order, the first is cut off by
\* top_k.
C16_Witness ==
    /\ ss_result.done /\ ss_result.out.ok
    /\ Len(ss_args.documents) = 3
    /\ ss_args.top_k = 2
    /\ SearchPassing = {1, 2, 3}
    /\ ScoreLess(SearchScore(1), SearchScore(2))
    /\ ~ScoreLess(SearchScore(2), SearchScore(3))
    /\ ~ScoreLess(SearchScore(3), SearchScore(2))
    /\ ss_result.out.val = <<ss_args.documents[2], ss_args.documents[3]>>

\* the (source, title) pairs of the documents retrieved by the last request
CitedPairs ==
    {<<last.relevant[i].source, last.relevant[i].title>> : i \in 1..Len(last.relevant)}

\* the line that cites a pair
CitationLine(pair) == <<"- ">> \o pair[1] \o <<" (">> \o pair[2] \o <<")">>

\* where the reply's citation list starts
SourcesAt == {i \in 1..Len(last.reply) : last.reply[i] = "\n\nSources:\n"}

\* the positions of the reply at which seq occurs
OccurrencesOf(seq) ==
    {i \in 1..(Len(last.reply) - Len(seq) + 1) :
        SubSeq(last.reply, i, i + Len(seq) - 1) = seq}

\* C17: the reply carries a citation list exactly when retrieval returned at
\* least one document; the list has one line for each distinct (source, title)
\* pair among the retrieved documents and no other line.
C17_CitationsDistinctPairs ==
    (last.ok /\ last.branch # "none") =>
        /\ (SourcesAt # {}) <=> (last.relevant # <<>>)
        /\ (last.relevant # <<>>) <=> (last.branch = "contextual")
        /\ last.branch = "contextual" =>
              /\ Cardinality(SourcesAt) = 1
              /\ \A pair \in CitedPairs :
                    /\ Cardinality(OccurrencesOf(CitationLine(pair))) = 1
                    /\ \A i \in OccurrencesOf(CitationLine(pair)) :
                          \A j \in SourcesAt : j < i
              /\ Cardinality(OccurrencesOf(<<"- ">>)) = Cardinality(CitedPairs)

\* C17 witness: three documents retrieved, two of them with the same source
\* and title, cited in two lines.
C17_Witness ==
    /\ last.ok /\ last.branch = "contextual"
    /\ Len(last.relevant) = 3
    /\ Cardinality(CitedPairs) = 2
    /\ Cardinality(OccurrencesOf(<<"- ">>)) = 2

\* the words of the chunks, one chunk after the other
RECURSIVE WordsOfChunks(_)
WordsOfChunks(chunks) ==
    IF chunks = <<>> THEN <<>>
    ELSE Split(Head(chunks)) \o WordsOfChunks(Tail(chunks))

\* C18: for any text and chunk_size n >= 1 the words of the chunks of
\* chunk_text, one chunk after the other, are the whitespace-separated words
\* of the text; every chunk but the last has n words, the last has between 1
\* and n, and a text with no word gives no chunk.
C18_ChunksPartitionWords ==
    ct_result.done =>
        LET chunks == ct_result.out.val
            n == ct_args.chunk_size
        IN  /\ WordsOfChunks(chunks) = Split(ct_args.text)
            /\ \A i \in 1..Len(chunks) :
                  /\ Len(Split(chunks[i])) >= 1
                  /\ Len(Split(chunks[i])) <= n
                  /\ i < Len(chunks) => Len(Split(chunks[i])) = n
            /\ (\A i \in 1..Len(ct_args.text) : ct_args.text[i] \in Whitespace)
                  => chunks = <<>>

\* C18 witness: a text of three words between runs of whitespace, cut with
\* chunk_size 2 into a chunk of two words and a chunk of one.
C18_Witness ==
    /\ ct_result.done
    /\ ct_args.chunk_size = 2
    /\ ct_args.text = <<" ", "a", "\n", " ", "b", " ", "a">>
    /\ ct_result.out.val = <<<<"a", " ", "b">>, <<"a">>>>

\* C19: when an external call (document fetch, embedding, generation) fails
\* during a process_message call on an already-seen session, the history of
\* every session is left as it was before the call: no turn is appended.
C19_Step ==
    (/\ NextSession \in DOMAIN conversation_memory
     /\ ~last'.ok) =>
        /\ last'.error \in {"firestore", "embed_text(chunk)", "embed_text(query)",
                            "generate_content"}
        /\ conversation_memory' = conversation_memory
        /\ appended' = appended
        /\ last'.appends = <<>>

C19_FailureLeavesHistory == [][C19_Step]_vars

\* C19 witness: the generation call failed on a session that already holds a
\* user turn and its assistant turn; the history still ends with that pair.
C19_Witness ==
    /\ ~last.ok
    /\ last.error = "generate_content"
    /\ Len(appended[LastSession]) >= 3
    /\ History(conversation_memory, LastSession) = appended[LastSession]
    /\ appended[LastSession][Len(appended[LastSession])].role = "assistant"

\* the session has received the welcome reply
Welcomed(s) == appended[s] # <<>> /\ Head(appended[s]) = WelcomeTurn

\* C20: once a session id has received the welcome reply, no later
\* process_message call for it returns the welcome text, also after the
\* welcome turn has left the 6-turn history; the session's key stays in the
\* memory map.
C20_Step ==
    /\ \A s \in SessionIds :
          Welcomed(s) => (s \in DOMAIN conversation_memory /\ s \in DOMAIN conversation_memory')
    /\ (NextMessage # <<>> /\ Welcomed(NextSession)) =>
          /\ last'.reply # welcome_message
          /\ last'.branch # "welcome"
          /\ Head(appended'[NextSession]) = WelcomeTurn

C20_WelcomeNeverRepeated == [][C20_Step]_vars

\* C20 witness: a call answered with the greeting on a session whose history
\* no longer holds the welcome turn.
C20_Witness ==
    /\ last.ok /\ last.branch = "greeting"
    /\ Len(appended[LastSession]) = 7
    /\ Head(appended[LastSession]) = WelcomeTurn
    /\ \A i \in 1..Len(History(conversation_memory, LastSession)) :
          History(conversation_memory, LastSession)[i] # WelcomeTurn

====
